---- MODULE Spec2Model ----
(***************************************************************************)
(* A model of the two litestream command handlers                          *)
(*   RestoreCommand.Run    (cmd/litestream/restore.go)                     *)
(*   SnapshotsCommand.Run  (cmd/litestream/snapshots.go)                   *)
(* One behaviour is one invocation of one command.  The command line is    *)
(* drawn from small sets in Init, every statement group of Run is one      *)
(* action, and every call into a collaborator (configuration provider,     *)
(* replication engine, standard library) is recorded in the spy log `log`  *)
(* together with the value it returned.                                    *)
(***************************************************************************)
EXTENDS Integers, Sequences, FiniteSets

\* ------------------------------------------------------------------ bounds
\* Largest number of positional arguments on a command line.
MaxArgs == 2
\* Largest number of SnapshotInfo records one Snapshots query returns.
MaxSnapshots == 2

\* ------------------------------------------------------------ value domains
\* Positional arguments tried: empty, an absolute path, a relative path, a URL.
PosArgs == {"", "/data/db", "rel.db", "s3://bkt/db"}
\* Values of configPath after fs.Parse ("" when no configuration path is supplied).
ConfigPaths == {"", "/etc/litestream.yml"}
\* Values given to -o.
OutputPaths == {"out.db", "/tmp/out.db"}
\* Values given to -replica.
ReplicaNames == {"s3", "nope"}
\* Values given to -replica of restore.
RestoreReplicaNames == {"s3"}
\* Values given to -generation.
Generations == {"g1"}
\* Values given to -index.
IndexVals == {0, 3}
\* Values given to -timestamp: two well-formed RFC 3339 strings of the same
\* instant in different zones, and one string that is not RFC 3339.
TimestampStrs == {"2000-01-01T00:00:00Z", "2000-01-01T01:00:00+01:00", "2000-01-01"}

\* A flag given on the command line is <<value>>, a flag not given is <<>>.
Opt(S) == {<<>>} \cup {<<v>> : v \in S}

\* flag.FlagSet: the value of a flag is the value given, else its default.
FlagValue(f, default) == IF f = <<>> THEN default ELSE f[1]

\* ------------------------------------------------------------------- errors
\* An error value: what it is, and the identifiers its message names.
Err(kind, a, b) == [kind |-> kind, a |-> a, b |-> b]
\* The nil error.
NoErr == Err("nil", "", "")
\* Errors produced by collaborators; the handlers only pass them on.
ErrFlagParse == Err("flag: parse error", "", "")
ErrConfigRead == Err("config: read failed", "", "")
ErrGetwd == Err("getwd: failed", "", "")
ErrNewDB == Err("engine: cannot construct db", "", "")
ErrReplicaURL == Err("engine: cannot construct replica", "", "")
ErrRestoreFailed == Err("engine: restore failed", "", "")
ErrQueryFailed == Err("engine: snapshots query failed", "", "")

\* A nil pointer / nil interface.
Nil == [nil |-> TRUE]

\* --------------------------------------------------------------------- time
\* A time.Time: hours since the Unix epoch and the zone offset in hours.
Time(hrs, off) == [hrs |-> hrs, off |-> off]
\* The zero time.Time (January 1, year 1, UTC).
ZeroTime == Time(-17259888, 0)
\* The RFC 3339 strings of the model and the time each denotes.
RFC3339Table ==
    { <<"2000-01-01T00:00:00Z", Time(262968, 0)>>,
      <<"2000-01-01T01:00:00+01:00", Time(262968, 1)>>,
      <<"0001-01-01T00:00:00Z", ZeroTime>> }

\* time.Parse(time.RFC3339, s): the time and a nil error, or the zero time
\* and an error when s is not in the layout.
ParseRFC3339(s) ==
    IF \E e \in RFC3339Table : e[1] = s
    THEN [t |-> (CHOOSE e \in RFC3339Table : e[1] = s)[2], ok |-> TRUE]
    ELSE [t |-> ZeroTime, ok |-> FALSE]

\* t.Format(time.RFC3339).
FormatRFC3339(t) == (CHOOSE e \in RFC3339Table : e[2] = t)[1]

\* -------------------------------------------------------------------- paths
\* filepath.Abs(p) on a process whose working directory is /cwd: an absolute
\* path is cleaned, any other path is joined to the working directory and
\* cleaned (Clean collapses the double slash of a URL).
AbsTable ==
    { <<"/data/db", "/data/db">>,
      <<"rel.db", "/cwd/rel.db">>,
      <<"out.db", "/cwd/out.db">>,
      <<"/tmp/out.db", "/tmp/out.db">>,
      <<"s3://bkt/db", "/cwd/s3:/bkt/db">>,
      <<"", "/cwd">> }
Abs(p) == (CHOOSE e \in AbsTable : e[1] = p)[2]
IsAbs(p) == p \in {"/data/db", "/cwd/rel.db", "/cwd/out.db", "/tmp/out.db",
                   "/cwd/s3:/bkt/db", "/cwd"}

\* isURL(s): s starts with a scheme followed by "://".
isURL(s) == s \in {"s3://bkt/db"}

\* ------------------------------------------------------------ configuration
\* A loaded Config: the database paths it lists, each with its replica names.
Configs ==
    { [p \in {} |-> {}],
      [p \in {"/data/db"} |-> {"s3"}],
      [p \in {"/data/db", "/cwd/rel.db"} |-> IF p = "/data/db" THEN {"s3"} ELSE {}] }
\* The zero Config.
NoConfig == [p \in {} |-> {}]

\* config.DBConfig(path): the entry of the database at path, or nil.
DBConfig(config, path) ==
    IF path \in DOMAIN config
    THEN [nil |-> FALSE, path |-> path, replicas |-> config[path]]
    ELSE Nil

\* A *litestream.DB built by newDBFromConfig from a DBConfig.
NewDB(dbc) == [nil |-> FALSE, path |-> dbc.path, replicas |-> dbc.replicas]
\* db.Path().
DBPath(db) == db.path
\* db.Replica(name): the replica of that name, or nil.
DBReplica(db, name) ==
    IF name \in db.replicas
    THEN [nil |-> FALSE, name |-> name, db |-> db.path] ELSE Nil
\* The litestream.Replica built by NewReplicaFromURL.
URLReplica(url) == [nil |-> FALSE, name |-> url, db |-> ""]

\* ------------------------------------------------------------ RestoreOptions
\* The index NewRestoreOptions sets: "use the highest available index".
DefaultIndex == -1
\* litestream.NewRestoreOptions().
NewRestoreOptions ==
    [OutputPath |-> "", ReplicaName |-> "", Generation |-> "",
     Index |-> DefaultIndex, DryRun |-> FALSE, Timestamp |-> ZeroTime,
     Logger |-> FALSE]

\* ------------------------------------------------------------- command line
\* Positional argument lists of at most MaxArgs arguments.
ArgLists == UNION { [1..n -> PosArgs] : n \in 0..MaxArgs }

\* A command line: the command, whether fs.Parse rejects it (an undefined flag,
\* a flag value of the wrong type, -h), the flags given and the positional
\* arguments.
CommandLines ==
    { [cmd |-> "restore", badflag |-> FALSE, pos |-> pos, config |-> c,
       replica |-> rn, o |-> o, generation |-> g, index |-> i,
       timestamp |-> ts, dryRun |-> d, v |-> v] :
        pos \in ArgLists, c \in ConfigPaths, rn \in Opt(RestoreReplicaNames),
        o \in Opt(OutputPaths), g \in Opt(Generations), i \in Opt(IndexVals),
        ts \in Opt(TimestampStrs), d \in BOOLEAN, v \in BOOLEAN }
    \cup
    { [cmd |-> "snapshots", badflag |-> FALSE, pos |-> pos, config |-> c,
       replica |-> rn, o |-> <<>>, generation |-> <<>>, index |-> <<>>,
       timestamp |-> <<>>, dryRun |-> FALSE, v |-> FALSE] :
        pos \in ArgLists, c \in ConfigPaths, rn \in Opt(ReplicaNames) }
    \cup
    { [cmd |-> c, badflag |-> TRUE, pos |-> pos,
       config |-> "/etc/litestream.yml",
       replica |-> <<>>, o |-> <<>>, generation |-> <<>>, index |-> <<>>,
       timestamp |-> <<>>, dryRun |-> FALSE, v |-> FALSE] :
        c \in {"restore", "snapshots"}, pos \in ArgLists }

\* ------------------------------------------------------------- SnapshotInfo
\* The SnapshotInfo records a Snapshots query may return.
SnapshotInfos ==
    { [Replica |-> "s3", Generation |-> "g1", Index |-> 3, Size |-> 1024,
       CreatedAt |-> Time(262968, 0)],
      [Replica |-> "file", Generation |-> "g2", Index |-> 0, Size |-> 0,
       CreatedAt |-> Time(262968, 1)] }
\* What a Snapshots query may return: at most MaxSnapshots records, any order.
SnapshotLists == UNION { [1..n -> SnapshotInfos] : n \in 0..MaxSnapshots }

\* fmt's %d of the integers the model prints.
Itoa(n) == CASE n = 0 -> "0" [] n = 3 -> "3" [] n = 1024 -> "1024"

\* The header line of the table.
Header == <<"replica", "generation", "index", "size", "created">>

\* The line printed for one SnapshotInfo.
FormatRow(info) ==
    <<info.Replica, info.Generation, Itoa(info.Index), Itoa(info.Size),
      FormatRFC3339(info.CreatedAt)>>

\* -------------------------------------------------------------------- state
VARIABLES
    in,            \* the command line of this invocation
    pc,            \* the statement group Run executes next; "done" after return
    configPath,    \* var configPath string
    opt,           \* opt, the litestream.RestoreOptions of restore
    timestampStr,  \* *timestampStr
    verbose,       \* *verbose
    replicaName,   \* *replicaName of snapshots
    config,        \* config, as ReadConfigFile returned it
    dbPath,        \* dbPath of restore, path of snapshots
    dbConfig,      \* dbConfig of restore, dbc of snapshots
    db,            \* db
    r,             \* r, the litestream.Replica of snapshots
    infos,         \* infos, as the Snapshots query returned them
    i,             \* how many of infos the range loop has printed
    w,             \* the lines buffered in the tabwriter
    stdout,        \* the lines written to os.Stdout
    ret,           \* the error Run returned, once pc = "done"
    log            \* every collaborator call made so far: function, argument, error

vars == <<in, pc, configPath, opt, timestampStr, verbose, replicaName, config,
          dbPath, dbConfig, db, r, infos, i, w, stdout, ret, log>>

\* The locals of restore that snapshots leaves alone, and the other way round.
restoreOnly == <<opt, timestampStr, verbose>>
snapshotsOnly == <<replicaName, r, infos, i, w, stdout>>

\* One call of a collaborator, as the spy records it.
Call(fn, arg, err) == [fn |-> fn, arg |-> arg, err |-> err]
\* The calls of fn recorded in l.
Calls(l, fn) == { k \in 1..Len(l) : l[k].fn = fn }

\* `return e`.
Return(e) == pc' = "done" /\ ret' = e

Init ==
    /\ in \in CommandLines
    /\ pc = "start"
    /\ configPath = ""
    /\ opt = NewRestoreOptions
    /\ timestampStr = ""
    /\ verbose = FALSE
    /\ replicaName = ""
    /\ config = NoConfig
    /\ dbPath = ""
    /\ dbConfig = Nil
    /\ db = Nil
    /\ r = Nil
    /\ infos = <<>>
    /\ i = 0
    /\ w = <<>>
    /\ stdout = <<>>
    /\ ret = NoErr
    /\ log = <<>>

\* ------------------------------------------------------- shared by both Runs
\* Usage(): the help screen of the command, printed to os.Stdout.  fs.Usage is
\* set to it, and fs.Parse calls fs.Usage whenever it returns an error.
UsageText(cmd) == <<"usage", cmd, "-config PATH", "Defaults to DefaultConfigPath()">>

\* The check of the positional arguments after fs.Parse: none, or an empty
\* first one, is the error `required`; more than one is "too many arguments".
ArgsErrorNoUpperCheck(required, pos) ==
    IF Len(pos) = 0 \/ pos[1] = "" THEN Err(required, "", "") ELSE NoErr
ArgsError(required, pos) ==
    IF Len(pos) = 0 \/ pos[1] = "" THEN Err(required, "", "")
    ELSE IF Len(pos) > 1 THEN Err("too many arguments", "", "")
    ELSE NoErr

\* =================================================================== restore
\* The flag variables of restore after fs.Parse: every field of opt bound to a
\* flag holds the flag's value, the others keep what NewRestoreOptions set.
RestoreFlagValuesIndexUnbound(cl) ==
    [NewRestoreOptions EXCEPT
        !.OutputPath = FlagValue(cl.o, ""),
        !.ReplicaName = FlagValue(cl.replica, ""),
        !.Generation = FlagValue(cl.generation, ""),
        !.DryRun = cl.dryRun]
RestoreFlagValues(cl) ==
    [NewRestoreOptions EXCEPT
        !.OutputPath = FlagValue(cl.o, ""),
        !.ReplicaName = FlagValue(cl.replica, ""),
        !.Generation = FlagValue(cl.generation, ""),
        !.Index = FlagValue(cl.index, NewRestoreOptions.Index),
        !.DryRun = cl.dryRun]

\* restore.go 20-39: register the flags, parse (a parse error prints the help
\* screen and is returned), check the positional arguments.
RestoreParseFlags ==
    /\ pc = "start" /\ in.cmd = "restore"
    /\ IF in.badflag
       THEN /\ stdout' = Append(stdout, UsageText("restore"))
            /\ Return(ErrFlagParse)
            /\ UNCHANGED <<configPath, opt, timestampStr, verbose>>
       ELSE /\ configPath' = in.config
            /\ UNCHANGED stdout
            /\ opt' = RestoreFlagValues(in)
            /\ timestampStr' = FlagValue(in.timestamp, "")
            /\ verbose' = in.v
            /\ LET e == ArgsError("database path or replica URL required", in.pos)
               IN  IF e # NoErr THEN Return(e)
                   ELSE pc' = "r_config" /\ UNCHANGED ret
    /\ UNCHANGED <<in, config, dbPath, dbConfig, db, log, replicaName, r, infos,
                   i, w>>

\* restore.go 42-44: the configuration path is mandatory.
RequireConfigSkipped(path) == NoErr
RequireConfig(path) ==
    IF path = "" THEN Err("-config required", "", "") ELSE NoErr

\* restore.go 41-48: load the configuration.
RestoreLoadConfig ==
    /\ pc = "r_config"
    /\ IF RequireConfig(configPath) # NoErr
       THEN Return(RequireConfig(configPath)) /\ UNCHANGED <<config, log>>
       ELSE \/ \E c \in Configs :
                 /\ log' = Append(log, Call("ReadConfigFile", configPath, NoErr))
                 /\ config' = c
                 /\ pc' = "r_timestamp" /\ UNCHANGED ret
            \/ /\ log' = Append(log, Call("ReadConfigFile", configPath, ErrConfigRead))
               /\ Return(ErrConfigRead)
               /\ UNCHANGED config
    /\ UNCHANGED <<in, configPath, dbPath, dbConfig, db>>
    /\ UNCHANGED restoreOnly /\ UNCHANGED snapshotsOnly

\* The error of a -timestamp that is not RFC 3339.
ErrTimestamp ==
    Err("invalid -timestamp, must specify in ISO 8601 format (e.g. 2000-01-01T00:00:00Z)", "", "")

\* restore.go 50-55: parse the timestamp, if one was given.
RestoreParseTimestamp ==
    /\ pc = "r_timestamp"
    /\ IF timestampStr # ""
       THEN LET p == ParseRFC3339(timestampStr)
            IN  /\ opt' = [opt EXCEPT !.Timestamp = p.t]
                /\ IF p.ok THEN pc' = "r_logger" /\ UNCHANGED ret
                   ELSE Return(ErrTimestamp)
       ELSE pc' = "r_logger" /\ UNCHANGED <<opt, ret>>
    /\ UNCHANGED <<in, configPath, timestampStr, verbose, config, dbPath,
                   dbConfig, db, log>>
    /\ UNCHANGED snapshotsOnly

\* restore.go 57-60: verbose output is enabled by -v and forced by -dry-run.
VerboseEnabledFlagOnly(dryRun, v) == v
VerboseEnabled(dryRun, v) == IF dryRun THEN TRUE ELSE v

\* restore.go 57-65: enable verbose on a dry run, attach the logger if verbose.
RestoreLogger ==
    /\ pc = "r_logger"
    /\ verbose' = VerboseEnabled(opt.DryRun, verbose)
    /\ opt' = IF verbose' THEN [opt EXCEPT !.Logger = TRUE] ELSE opt
    /\ pc' = "r_abs"
    /\ UNCHANGED <<in, configPath, timestampStr, config, dbPath, dbConfig, db,
                   ret, log>>
    /\ UNCHANGED snapshotsOnly

\* restore.go 67-71: the absolute path of the database.
RestoreAbs ==
    /\ pc = "r_abs"
    /\ \/ /\ log' = Append(log, Call("filepath.Abs", in.pos[1], NoErr))
          /\ dbPath' = Abs(in.pos[1])
          /\ pc' = "r_dbconfig" /\ UNCHANGED ret
       \/ /\ log' = Append(log, Call("filepath.Abs", in.pos[1], ErrGetwd))
          /\ Return(ErrGetwd)
          /\ UNCHANGED dbPath
    /\ UNCHANGED <<in, configPath, config, dbConfig, db>>
    /\ UNCHANGED restoreOnly /\ UNCHANGED snapshotsOnly

\* The error of a database the configuration does not list.
ErrDBNotFound(path) == Err("database not found in config", path, "")

\* restore.go 74-77: look the database up in the configuration.
RestoreDBConfig ==
    /\ pc = "r_dbconfig"
    /\ log' = Append(log, Call("DBConfig", dbPath, NoErr))
    /\ dbConfig' = DBConfig(config, dbPath)
    /\ IF dbConfig' = Nil THEN Return(ErrDBNotFound(dbPath))
       ELSE pc' = "r_newdb" /\ UNCHANGED ret
    /\ UNCHANGED <<in, configPath, config, dbPath, db>>
    /\ UNCHANGED restoreOnly /\ UNCHANGED snapshotsOnly

\* restore.go 78-81: construct the database.
RestoreNewDB ==
    /\ pc = "r_newdb"
    /\ \/ /\ log' = Append(log, Call("newDBFromConfig", dbConfig.path, NoErr))
          /\ db' = NewDB(dbConfig)
          /\ pc' = "r_restore" /\ UNCHANGED ret
       \/ /\ log' = Append(log, Call("newDBFromConfig", dbConfig.path, ErrNewDB))
          /\ Return(ErrNewDB)
          /\ UNCHANGED db
    /\ UNCHANGED <<in, configPath, config, dbPath, dbConfig>>
    /\ UNCHANGED restoreOnly /\ UNCHANGED snapshotsOnly

\* restore.go 83: restore, and return what Restore returned.
RestoreCall ==
    /\ pc = "r_restore"
    /\ \E e \in {NoErr, ErrRestoreFailed} :
          /\ log' = Append(log, Call("Restore", opt, e))
          /\ Return(e)
    /\ UNCHANGED <<in, configPath, config, dbPath, dbConfig, db>>
    /\ UNCHANGED restoreOnly /\ UNCHANGED snapshotsOnly

RestoreNext ==
    \/ RestoreParseFlags
    \/ RestoreLoadConfig
    \/ RestoreParseTimestamp
    \/ RestoreLogger
    \/ RestoreAbs
    \/ RestoreDBConfig
    \/ RestoreNewDB
    \/ RestoreCall

\* ================================================================= snapshots
\* snapshots.go 19-31: register the flags, parse (a parse error prints the help
\* screen and is returned), check the positional arguments.
SnapshotsParseFlags ==
    /\ pc = "start" /\ in.cmd = "snapshots"
    /\ IF in.badflag
       THEN /\ stdout' = Append(stdout, UsageText("snapshots"))
            /\ Return(ErrFlagParse)
            /\ UNCHANGED <<configPath, replicaName>>
       ELSE /\ configPath' = in.config
            /\ UNCHANGED stdout
            /\ replicaName' = FlagValue(in.replica, "")
            /\ LET e == ArgsError("database path required", in.pos)
               IN  IF e # NoErr THEN Return(e)
                   ELSE pc' = "s_resolve" /\ UNCHANGED ret
    /\ UNCHANGED <<in, config, dbPath, dbConfig, db, log, r, infos, i, w>>
    /\ UNCHANGED restoreOnly

\* snapshots.go 35, 39, 61: where the snapshots come from, first match wins:
\* a URL argument, else the configuration when -config is given, else nothing.
SourceConfigFirst(arg, path) ==
    IF path # "" THEN "config"
    ELSE IF isURL(arg) THEN "url"
    ELSE "none"
Source(arg, path) ==
    IF isURL(arg) THEN "url"
    ELSE IF path # "" THEN "config"
    ELSE "none"

\* snapshots.go 35-38: the argument is a URL: a replica built from it alone.
SnapshotsReplicaFromURL ==
    /\ pc = "s_resolve" /\ Source(in.pos[1], configPath) = "url"
    /\ \/ /\ log' = Append(log, Call("NewReplicaFromURL", in.pos[1], NoErr))
          /\ r' = URLReplica(in.pos[1])
          /\ pc' = "s_query" /\ UNCHANGED ret
       \/ /\ log' = Append(log, Call("NewReplicaFromURL", in.pos[1], ErrReplicaURL))
          /\ Return(ErrReplicaURL)
          /\ UNCHANGED r
    /\ UNCHANGED <<in, configPath, replicaName, config, dbPath, dbConfig, db,
                   infos, i, w, stdout>>
    /\ UNCHANGED restoreOnly

\* snapshots.go 39-44: a configuration path was given: load the configuration.
SnapshotsLoadConfig ==
    /\ pc = "s_resolve" /\ Source(in.pos[1], configPath) = "config"
    /\ \/ \E c \in Configs :
             /\ log' = Append(log, Call("ReadConfigFile", configPath, NoErr))
             /\ config' = c
             /\ pc' = "s_expand" /\ UNCHANGED ret
       \/ /\ log' = Append(log, Call("ReadConfigFile", configPath, ErrConfigRead))
          /\ Return(ErrConfigRead)
          /\ UNCHANGED config
    /\ UNCHANGED <<in, configPath, dbPath, dbConfig, db>>
    /\ UNCHANGED restoreOnly /\ UNCHANGED snapshotsOnly

\* The error of an argument that is no URL when no -config was given.
ErrNoSource == Err("config path or replica URL required", "", "")

\* snapshots.go 61-63: neither a URL nor a configuration path.
SnapshotsNoSource ==
    /\ pc = "s_resolve" /\ Source(in.pos[1], configPath) = "none"
    /\ Return(ErrNoSource)
    /\ UNCHANGED <<in, configPath, config, dbPath, dbConfig, db, log>>
    /\ UNCHANGED restoreOnly /\ UNCHANGED snapshotsOnly

\* expand(s): the absolute path of s (no argument of the model starts with ~).
Expand(s) == Abs(s)

\* snapshots.go 47-48: expand the argument to a path.
SnapshotsExpand ==
    /\ pc = "s_expand"
    /\ \/ /\ log' = Append(log, Call("expand", in.pos[1], NoErr))
          /\ dbPath' = Expand(in.pos[1])
          /\ pc' = "s_dbconfig" /\ UNCHANGED ret
       \/ /\ log' = Append(log, Call("expand", in.pos[1], ErrGetwd))
          /\ Return(ErrGetwd)
          /\ UNCHANGED dbPath
    /\ UNCHANGED <<in, configPath, config, dbConfig, db>>
    /\ UNCHANGED restoreOnly /\ UNCHANGED snapshotsOnly

\* snapshots.go 49-50: look the database up in the configuration.
SnapshotsDBConfig ==
    /\ pc = "s_dbconfig"
    /\ log' = Append(log, Call("DBConfig", dbPath, NoErr))
    /\ dbConfig' = DBConfig(config, dbPath)
    /\ IF dbConfig' = Nil THEN Return(ErrDBNotFound(dbPath))
       ELSE pc' = "s_newdb" /\ UNCHANGED ret
    /\ UNCHANGED <<in, configPath, config, dbPath, db>>
    /\ UNCHANGED restoreOnly /\ UNCHANGED snapshotsOnly

\* snapshots.go 51-53: construct the database.
SnapshotsNewDB ==
    /\ pc = "s_newdb"
    /\ \/ /\ log' = Append(log, Call("newDBFromConfig", dbConfig.path, NoErr))
          /\ db' = NewDB(dbConfig)
          /\ pc' = "s_replica" /\ UNCHANGED ret
       \/ /\ log' = Append(log, Call("newDBFromConfig", dbConfig.path, ErrNewDB))
          /\ Return(ErrNewDB)
          /\ UNCHANGED db
    /\ UNCHANGED <<in, configPath, config, dbPath, dbConfig>>
    /\ UNCHANGED restoreOnly /\ UNCHANGED snapshotsOnly

\* snapshots.go 58: the error of a replica name the database does not have.
ErrReplicaNotFoundNoPath(name, path) == Err("replica not found for database", name, "")
ErrReplicaNotFound(name, path) == Err("replica not found for database", name, path)

\* snapshots.go 55-60: filter by replica, if a name was given.
SnapshotsFilterReplica ==
    /\ pc = "s_replica"
    /\ IF replicaName # ""
       THEN /\ log' = Append(log, Call("DB.Replica", replicaName, NoErr))
            /\ r' = DBReplica(db, replicaName)
            /\ IF r' = Nil THEN Return(ErrReplicaNotFound(replicaName, DBPath(db)))
               ELSE pc' = "s_query" /\ UNCHANGED ret
       ELSE pc' = "s_query" /\ UNCHANGED <<r, ret, log>>
    /\ UNCHANGED <<in, configPath, replicaName, config, dbPath, dbConfig, db,
                   infos, i, w, stdout>>
    /\ UNCHANGED restoreOnly

\* snapshots.go 67: the replica is queried if there is one, else the database.
QueryFnAlwaysDB(rep) == "DB.Snapshots"
QueryFn(rep) == IF rep # Nil THEN "Replica.Snapshots" ELSE "DB.Snapshots"

\* snapshots.go 65-75: find the snapshots of the replica or of the database.
\* A query on a nil database is a nil dereference; the model records it as a
\* query on the receiver Nil.
SnapshotsQuery ==
    /\ pc = "s_query"
    /\ LET fn == QueryFn(r)
           on == IF fn = "Replica.Snapshots" THEN r ELSE db
       IN  \/ \E l \in SnapshotLists :
                 /\ log' = Append(log, Call(fn, on, NoErr))
                 /\ infos' = l
                 /\ pc' = "s_header" /\ UNCHANGED ret
           \/ /\ log' = Append(log, Call(fn, on, ErrQueryFailed))
              /\ Return(ErrQueryFailed)
              /\ UNCHANGED infos
    /\ UNCHANGED <<in, configPath, replicaName, config, dbPath, dbConfig, db,
                   r, i, w, stdout>>
    /\ UNCHANGED restoreOnly

\* snapshots.go 78-79: a tabwriter on os.Stdout, and the header line into it.
SnapshotsHeader ==
    /\ pc = "s_header"
    /\ w' = Append(w, Header)
    /\ pc' = "s_rows"
    /\ UNCHANGED <<in, configPath, replicaName, config, dbPath, dbConfig, db,
                   r, infos, i, stdout, ret, log>>
    /\ UNCHANGED restoreOnly

\* snapshots.go 80: `for _, info := range infos` visits infos in order: the
\* info of the pass after n passes.
RangeNextReversed(l, n) == l[Len(l) - n]
RangeNext(l, n) == l[n + 1]

\* snapshots.go 80-88: one pass of the range loop: the line of the next info.
SnapshotsRow ==
    /\ pc = "s_rows" /\ i < Len(infos)
    /\ w' = Append(w, FormatRow(RangeNext(infos, i)))
    /\ i' = i + 1
    /\ UNCHANGED <<in, pc, configPath, replicaName, config, dbPath, dbConfig, db,
                   r, infos, stdout, ret, log>>
    /\ UNCHANGED restoreOnly

\* snapshots.go 89-91: flush the tabwriter to os.Stdout and return nil.
SnapshotsFlush ==
    /\ pc = "s_rows" /\ i = Len(infos)
    /\ stdout' = stdout \o w
    /\ w' = <<>>
    /\ Return(NoErr)
    /\ UNCHANGED <<in, configPath, replicaName, config, dbPath, dbConfig, db,
                   r, infos, i, log>>
    /\ UNCHANGED restoreOnly

SnapshotsNext ==
    \/ SnapshotsParseFlags
    \/ SnapshotsReplicaFromURL
    \/ SnapshotsLoadConfig
    \/ SnapshotsNoSource
    \/ SnapshotsExpand
    \/ SnapshotsDBConfig
    \/ SnapshotsNewDB
    \/ SnapshotsFilterReplica
    \/ SnapshotsQuery
    \/ SnapshotsHeader
    \/ SnapshotsRow
    \/ SnapshotsFlush

Next == RestoreNext \/ SnapshotsNext

Spec == Init /\ [][Next]_vars

\* =================================================================== claims
\* The calls of the configuration provider, of the constructors and of the
\* engine recorded so far.
ConfigCalls == Calls(log, "ReadConfigFile") \cup Calls(log, "DBConfig")
ConstructionCalls == Calls(log, "newDBFromConfig") \cup Calls(log, "NewReplicaFromURL")
QueryCalls == Calls(log, "Replica.Snapshots") \cup Calls(log, "DB.Snapshots")
EngineCalls == Calls(log, "Restore") \cup QueryCalls

\* The usage errors of the two commands.
UsageErrors ==
    { ErrFlagParse,
      Err("database path or replica URL required", "", ""),
      Err("database path required", "", ""),
      Err("too many arguments", "", ""),
      Err("-config required", "", "") }

\* The command line has no positional argument or more than one, or is a
\* restore without -config.
UsageCase ==
    \/ Len(in.pos) = 0
    \/ Len(in.pos) >= 2
    \/ in.cmd = "restore" /\ in.config = ""

\* C1: a command line with zero or two-or-more positional arguments, and a
\* restore without a configuration path, ends in a usage error without any
\* call to the configuration provider, any construction of a database or a
\* replica, or any engine call: Run never gets past the checks.
C1_UsageErrorsBeforeIO ==
    UsageCase =>
        /\ ConfigCalls = {} /\ ConstructionCalls = {} /\ EngineCalls = {}
        /\ db = Nil /\ r = Nil
        /\ pc \in {"start", "r_config", "done"}
        /\ pc = "done" => ret \in UsageErrors

\* C1 witness: a restore with one argument and no -config has returned the
\* "-config required" error.
C1_Witness ==
    /\ pc = "done" /\ in.cmd = "restore" /\ ~in.badflag
    /\ Len(in.pos) = 1 /\ in.config = ""
    /\ ret = Err("-config required", "", "")

\* A restore whose -timestamp is malformed, with exactly one positional
\* argument and a configuration path.
MalformedTimestampCase ==
    /\ in.cmd = "restore" /\ ~in.badflag
    /\ Len(in.pos) = 1 /\ in.pos[1] # "" /\ in.config # ""
    /\ in.timestamp = <<"2000-01-01">>

\* C2 (as claimed): with a malformed -timestamp, restore fails with the
\* timestamp format error and the configuration provider records no call
\* (no ReadConfigFile, no DBConfig), no database is constructed and Restore
\* is not called.
C2_TimestampBeforeConfig ==
    MalformedTimestampCase =>
        /\ ConfigCalls = {} /\ ConstructionCalls = {} /\ EngineCalls = {}
        /\ pc = "done" => ret = ErrTimestamp

\* C3 (as claimed): the options of every Restore call carry an absolute
\* OutputPath.
C3_OutputPathAbsolute ==
    \A k \in Calls(log, "Restore") : IsAbs(log[k].arg.OutputPath)

\* C4: the options passed to Restore have a Logger attached if and only if
\* -dry-run or -v was given.
C4_LoggerIffDryRunOrVerbose ==
    \A k \in Calls(log, "Restore") :
        log[k].arg.Logger <=> (in.dryRun \/ in.v)

\* C4 witness: Restore was called on a command line with -dry-run and
\* without -v.
C4_Witness ==
    /\ Calls(log, "Restore") # {}
    /\ in.dryRun /\ ~in.v

\* A snapshots command line whose single positional argument is a URL.
URLCase ==
    /\ in.cmd = "snapshots" /\ ~in.badflag
    /\ Len(in.pos) = 1 /\ isURL(in.pos[1])

\* C5: when the single argument of snapshots is a URL, the configuration
\* provider is never called and no database is constructed, with or without
\* -config; the only construction is the replica from the URL.
C5_URLBypassesConfig ==
    URLCase =>
        /\ ConfigCalls = {} /\ Calls(log, "newDBFromConfig") = {}
        /\ Calls(log, "expand") = {} /\ Calls(log, "DB.Replica") = {}
        /\ config = NoConfig /\ db = Nil
        /\ \A k \in Calls(log, "NewReplicaFromURL") : log[k].arg = in.pos[1]
        /\ r # Nil => r = URLReplica(in.pos[1])
        /\ \A k \in QueryCalls :
              log[k].fn = "Replica.Snapshots" /\ log[k].arg = URLReplica(in.pos[1])

\* C5 witness: a snapshots command with a URL and a -config has queried the
\* replica and returned nil.
C5_Witness ==
    /\ URLCase /\ in.config # ""
    /\ pc = "done" /\ ret = NoErr
    /\ Calls(log, "Replica.Snapshots") # {}

\* The database of snapshots was found in the loaded configuration and
\* constructed, and -replica names a replica the configuration does not give it.
MissingReplicaCase ==
    /\ in.cmd = "snapshots" /\ ~in.badflag
    /\ \E k \in Calls(log, "ReadConfigFile") : log[k].err = NoErr
    /\ \E k \in Calls(log, "newDBFromConfig") : log[k].err = NoErr
    /\ dbPath \in DOMAIN config
    /\ in.replica # <<>> /\ in.replica[1] \notin config[dbPath]

\* C6: in that case snapshots returns the replica-not-found error naming the
\* replica name and the database path, makes no Snapshots query and prints
\* nothing.
C6_ReplicaNotFound ==
    MissingReplicaCase =>
        /\ pc \in {"s_replica", "done"}
        /\ pc = "done" =>
              /\ ret.kind = "replica not found for database"
              /\ ret.a = in.replica[1]
              /\ ret.b = dbPath /\ ret.b \in {"/data/db", "/cwd/rel.db"}
        /\ QueryCalls = {}
        /\ w = <<>> /\ stdout = <<>>

\* C6 witness: the replica "nope" was looked up on /data/db and the command
\* has returned.
C6_Witness ==
    /\ MissingReplicaCase /\ pc = "done"
    /\ in.replica = <<"nope">> /\ dbPath = "/data/db"
    /\ Calls(log, "DB.Replica") # {}

\* The table of a list of SnapshotInfo: the header, then one line per record
\* in the order of the list.
Table(l) == <<Header>> \o [k \in 1..Len(l) |-> FormatRow(l[k])]

\* C7 (as claimed): when snapshots returns an error nothing was written to
\* standard output; when it returns nil the output is the header and one line
\* per returned SnapshotInfo, in the order returned.
C7_OutputAllOrNothing ==
    (in.cmd = "snapshots" /\ pc = "done") =>
        IF ret # NoErr THEN stdout = <<>> ELSE stdout = Table(infos)

\* C7 (amended): nothing reaches standard output while snapshots runs; when
\* it returns an error other than a flag-parse error nothing was written, and
\* a flag-parse error wrote the help screen only (no line of the table); when
\* it returns nil the output is the header and one line per returned
\* SnapshotInfo, in the order returned.
C7_TableAllOrNothing ==
    in.cmd = "snapshots" =>
        /\ pc # "done" => stdout = <<>>
        /\ pc = "done" =>
              IF ret = ErrFlagParse THEN stdout = <<UsageText("snapshots")>>
              ELSE IF ret # NoErr THEN stdout = <<>>
              ELSE stdout = Table(infos)

\* C7 witness: snapshots returned nil after a query that returned two
\* different records; the output is the header and their two lines in order.
C7_Witness ==
    /\ in.cmd = "snapshots" /\ pc = "done" /\ ret = NoErr
    /\ Len(infos) = 2 /\ infos[1] # infos[2] /\ infos[1].Generation = "g1"
    /\ stdout[1] = Header
    /\ stdout[2] = <<"s3", "g1", "3", "1024", "2000-01-01T00:00:00Z">>
    /\ stdout[3] = <<"file", "g2", "0", "0", "2000-01-01T01:00:00+01:00">>

\* Every step of restore before the Restore call succeeded: the flags parsed,
\* there is exactly one non-empty argument and a configuration path, the
\* configuration loaded, the timestamp (if any) is well-formed, the absolute
\* path was found, the configuration lists the database and the database was
\* constructed.
RestoreStepsOK ==
    /\ ~in.badflag
    /\ Len(in.pos) = 1 /\ in.pos[1] # ""
    /\ in.config # ""
    /\ \E k \in Calls(log, "ReadConfigFile") : log[k].err = NoErr
    /\ in.timestamp \in {<<>>, <<"2000-01-01T00:00:00Z">>, <<"2000-01-01T01:00:00+01:00">>}
    /\ \E k \in Calls(log, "filepath.Abs") : log[k].err = NoErr
    /\ Abs(in.pos[1]) \in DOMAIN config
    /\ \E k \in Calls(log, "newDBFromConfig") : log[k].err = NoErr

\* C8: restore calls Restore at most once; once it has returned, Restore was
\* called exactly if every preceding step succeeded, a return without a
\* Restore call returns an error, and a return after the call returns what
\* Restore returned.
C8_RestoreCalledOnce ==
    in.cmd = "restore" =>
        /\ Cardinality(Calls(log, "Restore")) <= 1
        /\ Calls(log, "Restore") # {} => pc = "done"
        /\ pc = "done" =>
              /\ Calls(log, "Restore") # {} <=> RestoreStepsOK
              /\ Calls(log, "Restore") = {} => ret # NoErr
              /\ \A k \in Calls(log, "Restore") : ret = log[k].err

\* C8 witness: Restore was called and failed, and restore returned its error.
C8_Witness ==
    /\ in.cmd = "restore" /\ pc = "done"
    /\ Calls(log, "Restore") # {}
    /\ ret = ErrRestoreFailed

\* The time a well-formed -timestamp of the model denotes.
TimestampGiven ==
    IF in.timestamp = <<"2000-01-01T00:00:00Z">> THEN Time(262968, 0)
    ELSE IF in.timestamp = <<"2000-01-01T01:00:00+01:00">> THEN Time(262968, 1)
    ELSE ZeroTime

\* C9: the options of every Restore call carry the -replica, -generation,
\* -index and -dry-run values given (their defaults when not given) and the
\* time the -timestamp string denotes (the zero time when none); a timestamp
\* given together with a generation or an index is not rejected: the
\* timestamp error is returned for a malformed string only.
C9_SelectionPassedThrough ==
    /\ \A k \in Calls(log, "Restore") :
          /\ log[k].arg.ReplicaName = (IF in.replica = <<>> THEN "" ELSE in.replica[1])
          /\ log[k].arg.Generation = (IF in.generation = <<>> THEN "" ELSE in.generation[1])
          /\ log[k].arg.Index = (IF in.index = <<>> THEN DefaultIndex ELSE in.index[1])
          /\ log[k].arg.DryRun = in.dryRun
          /\ log[k].arg.Timestamp = TimestampGiven
    /\ (in.cmd = "restore" /\ pc = "done" /\ ret = ErrTimestamp)
          => in.timestamp = <<"2000-01-01">>

\* C9 witness: Restore was called with a timestamp in a zone other than UTC,
\* a generation, an index and a replica name given together.
C9_Witness ==
    \E k \in Calls(log, "Restore") :
        /\ in.timestamp = <<"2000-01-01T01:00:00+01:00">>
        /\ in.generation = <<"g1">> /\ in.index = <<3>> /\ in.replica = <<"s3">>
        /\ log[k].arg.Timestamp = Time(262968, 1)
        /\ log[k].arg.Index = 3

\* C10: a snapshots invocation at the query step has a source (a replica or a
\* database); it makes at most one query, and exactly one once it is past the
\* query step without the query error; the query is on the replica exactly if
\* a replica was resolved (from a URL, or by -replica on the configured
\* database), else on the database; without a URL and without -config it
\* returns the config-path-or-replica-URL-required error before any query.
C10_ExactlyOneSource ==
    in.cmd = "snapshots" =>
        /\ pc = "s_query" => (r # Nil \/ db # Nil)
        /\ Cardinality(QueryCalls) <= 1
        /\ (pc \in {"s_header", "s_rows"} \/ (pc = "done" /\ ret \in {NoErr, ErrQueryFailed}))
              => Cardinality(QueryCalls) = 1
        /\ \A k \in QueryCalls :
              /\ log[k].arg # Nil
              /\ IF r # Nil
                 THEN log[k].fn = "Replica.Snapshots" /\ log[k].arg = r
                 ELSE log[k].fn = "DB.Snapshots" /\ log[k].arg = db
              /\ r # Nil <=> (isURL(in.pos[1]) \/ in.replica # <<>>)
        /\ (~in.badflag /\ Len(in.pos) = 1 /\ in.pos[1] # ""
              /\ ~isURL(in.pos[1]) /\ in.config = "")
              => /\ QueryCalls = {}
                 /\ pc \in {"start", "s_resolve", "done"}
                 /\ pc = "done" => ret = ErrNoSource

\* C10 witness: a replica named by -replica on a configured database was
\* queried, and the database was not.
C10_Witness ==
    /\ in.cmd = "snapshots" /\ pc = "done" /\ ret = NoErr
    /\ ~isURL(in.pos[1]) /\ in.replica = <<"s3">>
    /\ Calls(log, "Replica.Snapshots") # {} /\ Calls(log, "DB.Snapshots") = {}

====
